---- MODULE Spec2Model ----
(***************************************************************************)
(* Model of the mcp-tavily-search server (src/src/index.ts): the           *)
(* CallToolRequestSchema handler, the three tool handlers, TavilyCache,    *)
(* error_handler and response_formatters.  Time is in milliseconds, as     *)
(* Date.now() gives it.  Each call slot runs one invocation at a time; a   *)
(* handler runs without interruption until it awaits (fetch, then          *)
(* response.json()), and other calls and the clock may move in between.    *)
(* The tool registry is that of tools.ts (src/unnamed/part_001).  Spec is   *)
(* the server under interleaved calls, SpecLive the same with a provider   *)
(* that settles every request; SpecAlone runs one call on the fresh        *)
(* server, over a wider set of arguments and provider answers; SpecCache   *)
(* is TavilyCache on its own and SpecFormat the text formatter on its own. *)
(***************************************************************************)
EXTENDS Integers, Sequences, FiniteSets, TLC

VARIABLES now, cache, pc, req, local, result, outbound, hist, listed

vars == <<now, cache, pc, req, local, result, outbound, hist, listed>>

(***************************************************************************)
(* Bounds of the model.                                                    *)
(***************************************************************************)
MaxCalls == 2
MaxNow == 3600002
MaxOutbound == 2
MaxTokens == 12
MaxTtl == 2
MaxCacheNow == 3000
MaxResults == 3

Calls == 1..MaxCalls

(***************************************************************************)
(* JavaScript values, as far as the handlers look at them.                 *)
(***************************************************************************)
Undefined == [type |-> "undefined", s |-> "", n |-> 0, a |-> << >>]
Str(x) == [type |-> "string", s |-> x, n |-> 0, a |-> << >>]
Num(k) == [type |-> "number", s |-> "", n |-> k, a |-> << >>]
Bool(b) == [type |-> "boolean", s |-> "", n |-> IF b THEN 1 ELSE 0, a |-> << >>]
Arr(xs) == [type |-> "object", s |-> "", n |-> 0, a |-> xs]

\* typeof v
TypeOf(v) == v.type

\* !v is false: the value is truthy
Truthy(v) ==
    CASE v.type = "undefined" -> FALSE
      [] v.type = "string" -> v.s # ""
      [] v.type = "number" -> v.n # 0
      [] v.type = "boolean" -> v.n = 1
      [] OTHER -> TRUE

\* a destructuring default: it applies to undefined only
Default(v, d) == IF v.type = "undefined" THEN d ELSE v

RECURSIVE JoinQuoted(_)
\* the elements of an array of strings inside JSON.stringify
JoinQuoted(xs) ==
    IF Len(xs) = 0 THEN ""
    ELSE "\"" \o xs[1] \o "\"" \o (IF Len(xs) > 1 THEN "," ELSE "")
         \o JoinQuoted(Tail(xs))

\* JSON.stringify of a value
JsonValue(v) ==
    CASE v.type = "string" -> "\"" \o v.s \o "\""
      [] v.type = "number" -> ToString(v.n)
      [] v.type = "boolean" -> (IF v.n = 1 THEN "true" ELSE "false")
      [] v.type = "object" ->
            "[" \o JoinQuoted(v.a) \o "]"
      [] OTHER -> "null"

(***************************************************************************)
(* The argument bag of a request: request.params.arguments.                *)
(***************************************************************************)
FieldNames ==
    {"query", "search_depth", "topic", "days", "time_range", "max_results",
     "include_images", "include_image_descriptions", "include_answer",
     "include_raw_content", "include_domains", "exclude_domains",
     "max_tokens", "response_format", "min_score", "cache_ttl",
     "force_refresh", "include_sources", "verbose"}

\* an object with no property
NoFields == [f \in {} |-> Undefined]

\* arguments absent from the request
NoArguments == [defined |-> FALSE, f |-> NoFields]

Bag(fs) == [defined |-> TRUE, f |-> fs]

\* object.name: undefined when the object has no such property
Prop(object, name) == IF name \in DOMAIN object THEN object[name] ELSE Undefined

\* rawArgs?.name
Field(rawArgs, name) == IF rawArgs.defined THEN Prop(rawArgs.f, name) ELSE Undefined

(***************************************************************************)
(* The tool registry.                                                      *)
(***************************************************************************)
\* the `default` members of an input schema's properties, from (name, value)
\* pairs
DeclaredDefaults(pairs) ==
    [f \in {pairs[i][1] : i \in 1..Len(pairs)} |->
        pairs[CHOOSE i \in 1..Len(pairs) : pairs[i][1] = f][2]]

\* each tool with the properties of its inputSchema and their defaults
TAVILY_TOOLS ==
    << [name |-> "tavily_search",
        properties |-> {"query", "search_depth", "include_answer",
                        "include_domains", "exclude_domains", "response_format",
                        "max_results", "min_score", "cache_ttl", "force_refresh"},
        defaults |-> DeclaredDefaults(<<
            <<"search_depth", Str("basic")>>,
            <<"include_answer", Bool(TRUE)>>,
            <<"include_domains", Arr(<< >>)>>,
            <<"exclude_domains", Arr(<< >>)>>,
            <<"response_format", Str("text")>>,
            <<"max_results", Num(10)>>,
            <<"min_score", Num(0)>>,
            <<"cache_ttl", Num(3600)>>,
            <<"force_refresh", Bool(FALSE)>> >>)],
       [name |-> "tavily_get_search_context",
        properties |-> {"query", "max_tokens", "response_format"},
        defaults |-> DeclaredDefaults(<<
            <<"max_tokens", Num(2000)>>,
            <<"response_format", Str("text")>> >>)],
       [name |-> "tavily_qna_search",
        properties |-> {"query", "include_sources", "response_format"},
        defaults |-> DeclaredDefaults(<<
            <<"include_sources", Bool(TRUE)>>,
            <<"response_format", Str("text")>> >>)] >>

\* a listing sorted by name
ListToolsSorted == << TAVILY_TOOLS[2], TAVILY_TOOLS[3], TAVILY_TOOLS[1] >>

\* the list handler has returned nothing that waits to be sent
NoListing == << >>

\* the handler of ListToolsRequestSchema: { tools: TAVILY_TOOLS }
ListToolsResult == TAVILY_TOOLS

\* a lookup that finds a tool for every name
FindToolAny(name) == TRUE

\* TAVILY_TOOLS.find((t) => t.name === request.params.name) found a tool
FindTool(name) == \E i \in 1..Len(TAVILY_TOOLS) : TAVILY_TOOLS[i].name = name

(***************************************************************************)
(* Errors and results.                                                     *)
(***************************************************************************)
NoError == [class |-> "none", code |-> "", message |-> "", status |-> 0]

\* new McpError(code, message): the SDK prefixes the message with the code
McpError(code, message) ==
    [class |-> "McpError", code |-> code,
     message |-> "MCP error " \o code \o ": " \o message, status |-> 0]

MethodNotFound == "-32601"
InvalidParams == "-32602"

\* new TavilyError(message, code, details)
TavilyError(message, code, status) ==
    [class |-> "TavilyError", code |-> code, message |-> message,
     status |-> status]

\* an Error raised by the runtime: fetch rejecting, response.json() rejecting,
\* a property read on undefined
RuntimeError(class, message) ==
    [class |-> class, code |-> "", message |-> message, status |-> 0]

format_error(error) ==
    IF error.class = "TavilyError"
    THEN "Tavily API Error (" \o error.code \o "): " \o error.message
    ELSE "Error: " \o error.message

NoResult == [kind |-> "none", content |-> << >>, isError |-> Undefined,
             error |-> NoError]

\* return { content: [{ type: 'text', text }] }
TextResult(text) ==
    [kind |-> "result", content |-> << [type |-> "text", text |-> text] >>,
     isError |-> Undefined, error |-> NoError]

\* a catch that lets protocol errors through
CaughtRethrowing(error) ==
    IF error.class = "McpError"
    THEN [kind |-> "thrown", content |-> << >>, isError |-> Undefined,
          error |-> error]
    ELSE [kind |-> "result",
          content |-> << [type |-> "text", text |-> format_error(error)] >>,
          isError |-> Bool(TRUE), error |-> error]

\* the catch of the call handler: the result it returns for `error` (kept
\* beside it, to tell what was raised)
Caught(error) ==
    [kind |-> "result",
     content |-> << [type |-> "text", text |-> format_error(error)] >>,
     isError |-> Bool(TRUE), error |-> error]

\* an error that leaves the call handler: the call ends with no result
Thrown(error) ==
    [kind |-> "thrown", content |-> << >>, isError |-> Undefined,
     error |-> error]

(***************************************************************************)
(* TavilyCache.                                                            *)
(***************************************************************************)
MsPerSecond == 1000

NoData == [defined |-> FALSE, query |-> "", answer |-> Undefined,
           hasResults |-> FALSE, results |-> << >>,
           response_time |-> -1]

NoEntry == [data |-> NoData, timestamp |-> 0, ttl |-> 0]

MapDelete(c, key) == [k \in DOMAIN c \ {key} |-> c[k]]

\* a TavilyCache.set that keeps the entry the key already has
CacheSetIfAbsent(c, key, data, ttl, t) ==
    [k \in DOMAIN c \cup {key} |->
        IF k \in DOMAIN c THEN c[k]
        ELSE [data |-> data, timestamp |-> t, ttl |-> ttl]]

\* TavilyCache.set at time t
CacheSet(c, key, data, ttl, t) ==
    [k \in DOMAIN c \cup {key} |->
        IF k = key THEN [data |-> data, timestamp |-> t, ttl |-> ttl]
        ELSE c[k]]

\* an expiry test that takes the ttl for milliseconds
ExpiredInMillis(entry, t) == t - entry.timestamp > entry.ttl

\* the expiry test of TavilyCache.get
Expired(entry, t) == t - entry.timestamp > entry.ttl * MsPerSecond

\* TavilyCache.get that never looks at the entry's age
CacheGetNoExpiry(c, key, t) ==
    IF key \notin DOMAIN c THEN [data |-> NoData, cache |-> c]
    ELSE [data |-> c[key].data, cache |-> c]

\* a TavilyCache.get that stamps the entry it returns with the time of the
\* read
CacheGetTouching(c, key, t) ==
    IF key \notin DOMAIN c THEN [data |-> NoData, cache |-> c]
    ELSE IF Expired(c[key], t)
         THEN [data |-> NoData, cache |-> MapDelete(c, key)]
         ELSE [data |-> c[key].data,
               cache |-> [c EXCEPT ![key].timestamp = t]]

\* a TavilyCache.get that also drops every other entry that has expired
CacheGetSweeping(c, key, t) ==
    LET swept == [k \in {j \in DOMAIN c : ~Expired(c[j], t)} |-> c[k]]
    IN  IF key \notin DOMAIN c THEN [data |-> NoData, cache |-> swept]
        ELSE IF Expired(c[key], t) THEN [data |-> NoData, cache |-> swept]
        ELSE [data |-> c[key].data, cache |-> swept]

\* TavilyCache.get at time t: the value returned and the map afterwards
CacheGet(c, key, t) ==
    IF key \notin DOMAIN c THEN [data |-> NoData, cache |-> c]
    ELSE IF Expired(c[key], t)
         THEN [data |-> NoData, cache |-> MapDelete(c, key)]
         ELSE [data |-> c[key].data, cache |-> c]

(***************************************************************************)
(* Text.                                                                   *)
(***************************************************************************)
RECURSIVE Join(_, _)
\* Array.prototype.join
Join(parts, sep) ==
    IF Len(parts) = 0 THEN ""
    ELSE IF Len(parts) = 1 THEN parts[1]
    ELSE parts[1] \o sep \o Join(Tail(parts), sep)

\* the members of `pairs` (name, text) whose value is not undefined
Members(pairs) == SelectSeq(pairs, LAMBDA p : p[2] # "")

\* the text of a value inside JSON.stringify; "" for a member that is left out
JsonMember(v) == IF v.type = "undefined" THEN "" ELSE JsonValue(v)

\* JSON.stringify(object) with no indentation
JsonCompact(pairs) ==
    "{" \o Join([i \in 1..Len(Members(pairs)) |->
                    "\"" \o Members(pairs)[i][1] \o "\":" \o Members(pairs)[i][2]],
                ",") \o "}"

\* JSON.stringify(object, null, 2) of an object nested `pad` deep
JsonPretty(pairs, pad) ==
    IF Len(Members(pairs)) = 0 THEN "{}"
    ELSE "{\n"
         \o Join([i \in 1..Len(Members(pairs)) |->
                    pad \o "  \"" \o Members(pairs)[i][1] \o "\": "
                        \o Members(pairs)[i][2]],
                 ",\n")
         \o "\n" \o pad \o "}"

\* JSON.stringify(array, null, 2) of an array nested `pad` deep
JsonPrettyArray(items, pad) ==
    IF Len(items) = 0 THEN "[]"
    ELSE "[\n" \o Join([i \in 1..Len(items) |-> pad \o "  " \o items[i]], ",\n")
         \o "\n" \o pad \o "]"

\* the text of the number ms / 1000
SecondsText(ms) ==
    LET whole == ms \div MsPerSecond
        frac == ms % MsPerSecond
    IN  IF frac = 0 THEN ToString(whole)
        ELSE IF frac % 100 = 0 THEN ToString(whole) \o "." \o ToString(frac \div 100)
        ELSE IF frac % 10 = 0
             THEN ToString(whole) \o "."
                  \o (IF frac < 100 THEN "0" ELSE "") \o ToString(frac \div 10)
        ELSE ToString(whole) \o "."
             \o (IF frac < 10 THEN "00" ELSE IF frac < 100 THEN "0" ELSE "")
             \o ToString(frac)

(***************************************************************************)
(* The provider's answers.                                                 *)
(***************************************************************************)
Result1 == [title |-> "Ownership", url |-> "https://doc.rust-lang.org",
            content |-> "Ownership rules", score |-> "0.9",
            published_date |-> Undefined]
Result2 == [title |-> "News", url |-> "https://example.com/n",
            content |-> "Borrowing", score |-> "0.5",
            published_date |-> Str("2024-01-01")]

Result3 == [title |-> "Draft", url |-> "https://example.com/d",
            content |-> "Lifetimes", score |-> "0.1",
            published_date |-> Str("")]

\* a parsed body: what `await response.json()` gives
Body(query, answer, hasResults, results) ==
    [defined |-> TRUE, query |-> query, answer |-> answer,
     hasResults |-> hasResults, results |-> results, response_time |-> -1]

Bodies ==
    { Body("q", Str("Rust uses ownership."), TRUE, << Result1, Result2 >>),
      Body("q", Undefined, FALSE, << >>) }

\* a Response of fetch
Responses ==
    { [ok |-> TRUE, status |-> 200, statusText |-> "OK"],
      [ok |-> FALSE, status |-> 500, statusText |-> "Internal Server Error"] }

\* JSON.stringify(search_response, null, 2)
StringifyResult(r, pad) ==
    JsonPretty(<< <<"title", JsonValue(Str(r.title))>>,
                  <<"url", JsonValue(Str(r.url))>>,
                  <<"content", JsonValue(Str(r.content))>>,
                  <<"score", r.score>>,
                  <<"published_date", JsonMember(r.published_date)>> >>, pad)

StringifyResponse(d) ==
    JsonPretty(<< <<"query", JsonValue(Str(d.query))>>,
                  <<"answer", JsonMember(d.answer)>>,
                  <<"results",
                    IF d.hasResults
                    THEN JsonPrettyArray([i \in 1..Len(d.results) |->
                                            StringifyResult(d.results[i], "    ")],
                                         "  ")
                    ELSE "">>,
                  <<"response_time",
                    IF d.response_time < 0 THEN ""
                    ELSE SecondsText(d.response_time)>> >>, "")

(***************************************************************************)
(* response_formatters.                                                    *)
(***************************************************************************)
\* a text formatter that numbers the sources from 0
FormatTextFromZero(data) ==
    "Search Results for \"" \o data.query \o "\":\n\n"
    \o (IF Truthy(data.answer)
        THEN "Summary: " \o data.answer.s \o "\n\nDetailed Sources:\n" ELSE "")
    \o Join([i \in 1..Len(data.results) |->
                ToString(i - 1) \o ". " \o data.results[i].title \o "\n"
                \o "   URL: " \o data.results[i].url \o "\n"
                \o (IF Truthy(data.results[i].published_date)
                    THEN "   Published: " \o data.results[i].published_date.s \o "\n"
                    ELSE "")
                \o "   Content: " \o data.results[i].content \o "\n"],
            "\n")

\* response_formatters.text
FormatText(data) ==
    "Search Results for \"" \o data.query \o "\":\n\n"
    \o (IF Truthy(data.answer)
        THEN "Summary: " \o data.answer.s \o "\n\nDetailed Sources:\n" ELSE "")
    \o Join([i \in 1..Len(data.results) |->
                ToString(i) \o ". " \o data.results[i].title \o "\n"
                \o "   URL: " \o data.results[i].url \o "\n"
                \o (IF Truthy(data.results[i].published_date)
                    THEN "   Published: " \o data.results[i].published_date.s \o "\n"
                    ELSE "")
                \o "   Content: " \o data.results[i].content \o "\n"],
            "\n")

FormatJson(data) == StringifyResponse(data)

FormatMarkdown(data) ==
    "# Search Results: " \o data.query \o "\n\n"
    \o (IF Truthy(data.answer)
        THEN "## Summary\n" \o data.answer.s \o "\n\n## Sources\n" ELSE "")
    \o Join([i \in 1..Len(data.results) |->
                "### " \o data.results[i].title \o "\n"
                \o "- URL: [" \o data.results[i].url \o "]("
                \o data.results[i].url \o ")\n"
                \o (IF Truthy(data.results[i].published_date)
                    THEN "- Published: " \o data.results[i].published_date.s \o "\n"
                    ELSE "")
                \o "\n" \o data.results[i].content \o "\n"],
            "\n---\n")

(***************************************************************************)
(* The requests the model draws from.                                      *)
(***************************************************************************)
With(fs, name, v) ==
    [f \in DOMAIN fs \cup {name} |-> IF f = name THEN v ELSE fs[f]]

Q == With(NoFields, "query", Str("q"))

SearchBags ==
    { NoArguments,
      Bag(With(NoFields, "query", Num(42))),
      Bag(Q),
      Bag(With(With(With(Q, "max_results", Num(3)),
                    "response_format", Str("markdown")),
               "include_domains", Arr(<< "example.com" >>))),
      Bag(With(With(Q, "force_refresh", Bool(TRUE)), "cache_ttl", Num(1800))),
      Bag(With(Q, "search_depth", Str("advanced"))) }

ContextBags == { NoArguments, Bag(Q) }

QnaBags == { Bag(With(NoFields, "query", Num(42))), Bag(Q) }

Requests ==
    [name : {"tavily_search"}, arguments : SearchBags]
    \cup [name : {"tavily_get_search_context"}, arguments : ContextBags]
    \cup [name : {"tavily_qna_search"}, arguments : QnaBags]
    \cup [name : {"tavily_extract"}, arguments : {NoArguments, Bag(Q)}]

NoRequest == [name |-> "", arguments |-> NoArguments]

\* the steps by which the clock moves between two events
ClockSteps == {1800001}

(***************************************************************************)
(* The call handler up to its first await.                                 *)
(***************************************************************************)
\* an argument check that leaves out the typeof test
QueryInvalidNoTypeof(rawArgs) == ~Truthy(Field(rawArgs, "query"))

\* !rawArgs?.query || typeof rawArgs.query !== 'string'
QueryInvalid(rawArgs) ==
    \/ ~Truthy(Field(rawArgs, "query"))
    \/ TypeOf(Field(rawArgs, "query")) # "string"

SearchFields ==
    {"query", "search_depth", "topic", "days", "time_range", "max_results",
     "include_images", "include_image_descriptions", "include_answer",
     "include_raw_content", "include_domains", "exclude_domains"}

ContextFields ==
    {"query", "max_tokens", "search_depth", "topic", "days", "time_range",
     "max_results", "include_domains", "exclude_domains"}

QnaFields ==
    {"query", "search_depth", "topic", "days", "time_range", "max_results",
     "include_domains", "exclude_domains"}

\* an args object that copies the query and nothing else
ArgsQueryOnly(rawArgs, fields) ==
    [f \in fields |-> IF f = "query" THEN Field(rawArgs, f) ELSE Undefined]

\* an args object that spreads rawArgs: { ...rawArgs }
ArgsSpread(rawArgs, fields) ==
    [f \in fields \cup (IF rawArgs.defined THEN DOMAIN rawArgs.f ELSE {}) |->
        Field(rawArgs, f)]

\* const args = { query: rawArgs.query, ... }: the named fields and no others
Args(rawArgs, fields) == [f \in fields |-> Field(rawArgs, f)]

\* a built-in list of trusted domains
DefaultTrustedDomains == Arr(<< "arxiv.org", "wikipedia.org", "github.com" >>)

default_include_domains == Arr(<< >>)
default_exclude_domains == Arr(<< >>)

\* a destructuring that takes the defaults of the input schema
SearchDefaultsAsDeclared(args) ==
    [f \in DOMAIN args |->
        CASE f = "search_depth" -> Default(args[f], Str("basic"))
          [] f = "topic" -> Default(args[f], Str("general"))
          [] f = "max_results" -> Default(args[f], Num(10))
          [] f = "include_images" -> Default(args[f], Bool(FALSE))
          [] f = "include_image_descriptions" -> Default(args[f], Bool(FALSE))
          [] f = "include_answer" -> Default(args[f], Bool(TRUE))
          [] f = "include_raw_content" -> Default(args[f], Bool(FALSE))
          [] f = "include_domains" -> Default(args[f], Arr(<< >>))
          [] f = "exclude_domains" -> Default(args[f], Arr(<< >>))
          [] OTHER -> args[f]]

\* a destructuring that gives search_depth no default
SearchDefaultsNoDepth(args) ==
    [f \in DOMAIN args |->
        CASE f = "topic" -> Default(args[f], Str("general"))
          [] f = "max_results" -> Default(args[f], Num(5))
          [] f = "include_images" -> Default(args[f], Bool(FALSE))
          [] f = "include_image_descriptions" -> Default(args[f], Bool(FALSE))
          [] f = "include_answer" -> Default(args[f], Bool(FALSE))
          [] f = "include_raw_content" -> Default(args[f], Bool(FALSE))
          [] f = "include_domains" -> Default(args[f], default_include_domains)
          [] f = "exclude_domains" -> Default(args[f], default_exclude_domains)
          [] OTHER -> args[f]]

\* the destructuring of handle_search
SearchDefaults(args) ==
    [f \in DOMAIN args |->
        CASE f = "search_depth" -> Default(args[f], Str("basic"))
          [] f = "topic" -> Default(args[f], Str("general"))
          [] f = "max_results" -> Default(args[f], Num(5))
          [] f = "include_images" -> Default(args[f], Bool(FALSE))
          [] f = "include_image_descriptions" -> Default(args[f], Bool(FALSE))
          [] f = "include_answer" -> Default(args[f], Bool(FALSE))
          [] f = "include_raw_content" -> Default(args[f], Bool(FALSE))
          [] f = "include_domains" -> Default(args[f], default_include_domains)
          [] f = "exclude_domains" -> Default(args[f], default_exclude_domains)
          [] OTHER -> args[f]]

\* the destructuring of handle_context
ContextDefaults(args) ==
    [f \in DOMAIN args |->
        CASE f = "max_tokens" -> Default(args[f], Num(2000))
          [] f = "search_depth" -> Default(args[f], Str("advanced"))
          [] f = "topic" -> Default(args[f], Str("general"))
          [] f = "max_results" -> Default(args[f], Num(5))
          [] f = "include_domains" -> Default(args[f], default_include_domains)
          [] f = "exclude_domains" -> Default(args[f], default_exclude_domains)
          [] OTHER -> args[f]]

\* the destructuring of handle_qna
QnaDefaults(args) ==
    [f \in DOMAIN args |->
        CASE f = "search_depth" -> Default(args[f], Str("advanced"))
          [] f = "topic" -> Default(args[f], Str("general"))
          [] f = "max_results" -> Default(args[f], Num(5))
          [] f = "include_domains" -> Default(args[f], default_include_domains)
          [] f = "exclude_domains" -> Default(args[f], default_exclude_domains)
          [] OTHER -> args[f]]

\* a cache key that also depends on max_results
CacheKeyWithMaxResults(p) ==
    JsonCompact(<< <<"query", JsonMember(p["query"])>>,
                   <<"search_depth", JsonMember(p["search_depth"])>>,
                   <<"topic", JsonMember(p["topic"])>>,
                   <<"max_results", JsonMember(p["max_results"])>>,
                   <<"include_answer", JsonMember(p["include_answer"])>>,
                   <<"include_images", JsonMember(p["include_images"])>>,
                   <<"include_raw_content", JsonMember(p["include_raw_content"])>> >>)

\* a cache key that leaves the topic out
CacheKeyNoTopic(p) ==
    JsonCompact(<< <<"query", JsonMember(p["query"])>>,
                   <<"search_depth", JsonMember(p["search_depth"])>>,
                   <<"include_answer", JsonMember(p["include_answer"])>>,
                   <<"include_images", JsonMember(p["include_images"])>>,
                   <<"include_raw_content", JsonMember(p["include_raw_content"])>> >>)

\* the cache key of handle_search, from its locals
CacheKey(p) ==
    JsonCompact(<< <<"query", JsonMember(p["query"])>>,
                   <<"search_depth", JsonMember(p["search_depth"])>>,
                   <<"topic", JsonMember(p["topic"])>>,
                   <<"include_answer", JsonMember(p["include_answer"])>>,
                   <<"include_images", JsonMember(p["include_images"])>>,
                   <<"include_raw_content", JsonMember(p["include_raw_content"])>> >>)

\* the ttl handle_search stores its response with
SearchTtl == 3600

(***************************************************************************)
(* What a call remembers: the handler's locals across its awaits, and what *)
(* the call has done so far.                                               *)
(***************************************************************************)
NoLocal == [cache_key |-> "", start_time |-> 0]

NoGet == [called |-> FALSE, key |-> "", had |-> FALSE, age |-> 0, ttl |-> 0,
          hit |-> FALSE, kept |-> FALSE]

\* `body` is the body of the request the call posted to the provider, `data`
\* the parsed body of the provider's answer, `replaced` whether the call's
\* cache.set found an entry under its key
NoHist == [handler |-> "none", got |-> NoGet, fetches |-> 0, sets |-> 0,
           replaced |-> FALSE, body |-> NoFields, data |-> NoData]

\* the record of one cache.get(key) at time t that gave `got`: whether the map
\* held the key, the entry's age and ttl, whether its data came back and
\* whether the map still holds the key afterwards
GetRecord(c, key, t, got) ==
    [called |-> TRUE, key |-> key, had |-> key \in DOMAIN c,
     age |-> IF key \in DOMAIN c THEN t - c[key].timestamp ELSE 0,
     ttl |-> IF key \in DOMAIN c THEN c[key].ttl ELSE 0,
     hit |-> got.data.defined, kept |-> key \in DOMAIN got.cache]

\* what the handler has done when it first awaits or returns
Outcome(next, res, c, loc, h) ==
    [pc |-> next, result |-> res, cache |-> c, local |-> loc, hist |-> h]

\* the body handle_search posts
SearchBody(args) == SearchDefaults(args)

\* the body handle_context posts
ContextBody(args) == With(ContextDefaults(args), "include_answer", Bool(FALSE))

\* a body for handle_qna that asks for no answer, as handle_context's does
QnaBodyNoAnswer(args) == With(QnaDefaults(args), "include_answer", Bool(FALSE))

\* the body handle_qna posts
QnaBody(args) == With(QnaDefaults(args), "include_answer", Bool(TRUE))

\* a handle_search that posts no request while another call is waiting for
\* the provider's answer to the same key, and waits for that answer
handle_search_coalescing(args, c, t) ==
    LET cache_key == CacheKey(SearchDefaults(args))
        got == CacheGet(c, cache_key, t)
        h == [handler |-> "handle_search",
              got |-> GetRecord(c, cache_key, t, got), fetches |-> 0, sets |-> 0,
              replaced |-> FALSE, body |-> NoFields, data |-> NoData]
    IN  IF got.data.defined
        THEN Outcome("done", TextResult(StringifyResponse(got.data)),
                     got.cache, NoLocal, h)
        ELSE Outcome("fetch", NoResult, got.cache,
                     [cache_key |-> cache_key, start_time |-> t],
                     IF \E d \in Calls : /\ pc[d] \in {"fetch", "json"}
                                          /\ local[d].cache_key = cache_key
                     THEN h
                     ELSE [h EXCEPT !.fetches = 1, !.body = SearchBody(args)])

\* a handle_search that gives a response answered from the cache a
\* response_time of its own
handle_search_timing_hits(args, c, t) ==
    LET cache_key == CacheKey(SearchDefaults(args))
        got == CacheGet(c, cache_key, t)
        h == [handler |-> "handle_search",
              got |-> GetRecord(c, cache_key, t, got), fetches |-> 0, sets |-> 0,
              replaced |-> FALSE, body |-> NoFields, data |-> NoData]
    IN  IF got.data.defined
        THEN Outcome("done",
                     TextResult(StringifyResponse(
                         [got.data EXCEPT !.response_time = 0])),
                     got.cache, NoLocal, h)
        ELSE Outcome("fetch", NoResult, got.cache,
                     [cache_key |-> cache_key, start_time |-> t],
                     [h EXCEPT !.fetches = 1, !.body = SearchBody(args)])

\* handle_search up to `await fetch`
handle_search(args, c, t) ==
    LET cache_key == CacheKey(SearchDefaults(args))
        got == CacheGet(c, cache_key, t)
        h == [handler |-> "handle_search",
              got |-> GetRecord(c, cache_key, t, got), fetches |-> 0, sets |-> 0,
              replaced |-> FALSE, body |-> NoFields, data |-> NoData]
    IN  IF got.data.defined
        THEN Outcome("done", TextResult(StringifyResponse(got.data)),
                     got.cache, NoLocal, h)
        ELSE Outcome("fetch", NoResult, got.cache,
                     [cache_key |-> cache_key, start_time |-> t],
                     [h EXCEPT !.fetches = 1, !.body = SearchBody(args)])

\* handle_context up to `await fetch`
handle_context(args, c, t) ==
    Outcome("fetch", NoResult, c, NoLocal,
            [handler |-> "handle_context", got |-> NoGet,
             fetches |-> 1, sets |-> 0, replaced |-> FALSE, body |-> ContextBody(args),
             data |-> NoData])

\* handle_qna up to `await fetch`
handle_qna(args, c, t) ==
    Outcome("fetch", NoResult, c, NoLocal,
            [handler |-> "handle_qna", got |-> NoGet,
             fetches |-> 1, sets |-> 0, replaced |-> FALSE, body |-> QnaBody(args),
             data |-> NoData])

\* a catch that also empties the cache
CatchClearing(error, c) ==
    Outcome("done", Caught(error), [k \in {} |-> NoEntry], NoLocal, NoHist)

\* an error thrown inside the try block: the catch makes a result of it
Catch(error, c) == Outcome("done", Caught(error), c, NoLocal, NoHist)

\* the error the argument check throws
InvalidQuery ==
    McpError(InvalidParams, "Query parameter is required and must be a string")

\* the switch of the call handler, inside its try block
Dispatch(r, c, t) ==
    CASE r.name = "tavily_search" ->
            IF QueryInvalid(r.arguments) THEN Catch(InvalidQuery, c)
            ELSE handle_search(Args(r.arguments, SearchFields), c, t)
      [] r.name = "tavily_get_search_context" ->
            IF QueryInvalid(r.arguments) THEN Catch(InvalidQuery, c)
            ELSE handle_context(Args(r.arguments, ContextFields), c, t)
      [] r.name = "tavily_qna_search" ->
            IF QueryInvalid(r.arguments) THEN Catch(InvalidQuery, c)
            ELSE handle_qna(Args(r.arguments, QnaFields), c, t)
      [] OTHER ->
            Catch(McpError(MethodNotFound, "Unimplemented tool: " \o r.name), c)

\* the call handler, from the request to its first await or its return
Handle(r, c, t) ==
    IF ~FindTool(r.name)
    THEN Outcome("done",
                 Thrown(McpError(MethodNotFound, "Unknown tool: " \o r.name)),
                 c, NoLocal, NoHist)
    ELSE Dispatch(r, c, t)

(***************************************************************************)
(* The handlers after their awaits.                                        *)
(***************************************************************************)
\* a slice that also takes the character at `end`
SliceInclusive(str, end) ==
    LET e == IF end < 0 THEN (IF Len(str) + end < 0 THEN 0 ELSE Len(str) + end)
             ELSE IF end >= Len(str) THEN Len(str) ELSE end + 1
    IN  SubSeq(str, 1, e)

\* String.prototype.slice(0, end)
Slice(str, end) ==
    LET e == IF end < 0 THEN (IF Len(str) + end < 0 THEN 0 ELSE Len(str) + end)
             ELSE IF end > Len(str) THEN Len(str) ELSE end
    IN  SubSeq(str, 1, e)

\* if (!response.ok) throw new TavilyError(...)
NotOk(response) ==
    TavilyError("API request failed: " \o response.statusText, "API_ERROR",
                response.status)

\* { ...data, response_time } at time t
SearchResponse(data, start_time, t) ==
    [data EXCEPT !.response_time = t - start_time]

\* handle_context after `await response.json()`
ContextText(data, max_tokens) ==
    Slice(Join([i \in 1..Len(data.results) |-> data.results[i].content], "\n\n"),
          max_tokens.n)

\* handle_qna after `await response.json()`
QnaText(data) == IF Truthy(data.answer) THEN data.answer.s ELSE "No answer found."

\* a handle_search whose entries are stamped with time 0 and not with the
\* time of the write
SearchDoneUnstamped(h, loc, c, data, t) ==
    LET search_response == SearchResponse(data, loc.start_time, t)
    IN  Outcome("done", TextResult(StringifyResponse(search_response)),
                CacheSet(c, loc.cache_key, search_response, SearchTtl, 0),
                NoLocal,
                [h EXCEPT !.sets = 1, !.data = data,
                          !.replaced = loc.cache_key \in DOMAIN c])

\* a handle_search that stores its response under a key made of the query
\* alone
SearchDoneKeyedByQuery(h, loc, c, data, t) ==
    LET search_response == SearchResponse(data, loc.start_time, t)
        key == JsonCompact(<< <<"query", JsonMember(h.body["query"])>> >>)
    IN  Outcome("done", TextResult(StringifyResponse(search_response)),
                CacheSet(c, key, search_response, SearchTtl, t),
                NoLocal,
                [h EXCEPT !.sets = 1, !.data = data, !.replaced = key \in DOMAIN c])

\* a handle_search that returns the provider's answer and stores nothing
SearchDoneNoWrite(h, loc, c, data, t) ==
    LET search_response == SearchResponse(data, loc.start_time, t)
    IN  Outcome("done", TextResult(StringifyResponse(search_response)),
                c, NoLocal, [h EXCEPT !.data = data])

\* handle_search after `await response.json()` gave data at time t
SearchDone(h, loc, c, data, t) ==
    LET search_response == SearchResponse(data, loc.start_time, t)
    IN  Outcome("done", TextResult(StringifyResponse(search_response)),
                CacheSet(c, loc.cache_key, search_response, SearchTtl, t),
                NoLocal,
                [h EXCEPT !.sets = 1, !.data = data,
                          !.replaced = loc.cache_key \in DOMAIN c])

\* handle_context after `await response.json()` gave data
ContextDone(h, args, c, data) ==
    Outcome("done",
            IF data.hasResults
            THEN TextResult(ContextText(data, ContextDefaults(args)["max_tokens"]))
            ELSE Caught(RuntimeError("TypeError",
                     "Cannot read properties of undefined (reading 'map')")),
            c, NoLocal, [h EXCEPT !.data = data])

\* a handle_qna that stores the provider's answer in the cache
QnaDoneCaching(h, c, data) ==
    Outcome("done", TextResult(QnaText(data)),
            CacheSet(c, JsonCompact(<< <<"query", JsonMember(h.body["query"])>> >>),
                     data, SearchTtl, 0),
            NoLocal, [h EXCEPT !.data = data])

\* handle_qna after `await response.json()` gave data
QnaDone(h, c, data) ==
    Outcome("done", TextResult(QnaText(data)), c, NoLocal,
            [h EXCEPT !.data = data])

\* the handler of the call with record h and locals loc, from the parsed body
\* to its return
AfterJson(h, loc, rawArgs, c, data, t) ==
    CASE h.handler = "handle_search" -> SearchDone(h, loc, c, data, t)
      [] h.handler = "handle_context" ->
            ContextDone(h, Args(rawArgs, ContextFields), c, data)
      [] OTHER -> QnaDone(h, c, data)

(***************************************************************************)
(* The state machine.                                                      *)
(***************************************************************************)
Init ==
    /\ now = 0
    /\ cache = << >>
    /\ pc = [c \in Calls |-> "idle"]
    /\ req = [c \in Calls |-> NoRequest]
    /\ local = [c \in Calls |-> NoLocal]
    /\ result = [c \in Calls |-> NoResult]
    /\ outbound = 0
    /\ hist = [c \in Calls |-> NoHist]
    /\ listed = NoListing

\* no result waits to be handed to the transport: the handler's return and
\* the sending of its result happen in one turn of the event loop
Quiet == (\A c \in Calls : pc[c] # "done") /\ listed = NoListing

\* a request arrives and takes the first free slot: the handler runs to its
\* first await, or to its return
CallTool(c, r) ==
    /\ Quiet
    /\ pc[c] = "idle"
    /\ \A d \in Calls : d < c => pc[d] # "idle"
    /\ \E out \in {Handle(r, cache, now)} :
           /\ out.pc = "fetch" => outbound < MaxOutbound
           /\ pc' = [pc EXCEPT ![c] = out.pc]
           /\ req' = [req EXCEPT ![c] = r]
           /\ local' = [local EXCEPT ![c] = out.local]
           /\ result' = [result EXCEPT ![c] = out.result]
           /\ hist' = [hist EXCEPT ![c] = out.hist]
           /\ cache' = out.cache
           /\ outbound' = outbound + out.hist.fetches
    /\ UNCHANGED <<now, listed>>

\* a call that, once it has its result, awaits the provider again
FinishAwaitingAgain(c, res) ==
    /\ pc' = [pc EXCEPT ![c] = "fetch"]
    /\ result' = [result EXCEPT ![c] = res]
    /\ local' = [local EXCEPT ![c] = NoLocal]

\* the call leaves with `res`
Finish(c, res) ==
    /\ pc' = [pc EXCEPT ![c] = "done"]
    /\ result' = [result EXCEPT ![c] = res]
    /\ local' = [local EXCEPT ![c] = NoLocal]

\* fetch resolves with a response
FetchResolve(c, response) ==
    /\ Quiet
    /\ pc[c] = "fetch"
    /\ IF response.ok
       THEN /\ pc' = [pc EXCEPT ![c] = "json"]
            /\ UNCHANGED <<result, local>>
       ELSE Finish(c, Caught(NotOk(response)))
    /\ UNCHANGED <<now, cache, req, outbound, hist, listed>>

\* a handler that posts its request again when the network fails
FetchRejectRetrying(c) ==
    /\ Quiet
    /\ pc[c] = "fetch"
    /\ outbound < MaxOutbound
    /\ outbound' = outbound + 1
    /\ hist' = [hist EXCEPT ![c].fetches = hist[c].fetches + 1]
    /\ UNCHANGED <<now, cache, pc, req, local, result, listed>>

\* fetch rejects: the network failed
FetchReject(c) ==
    /\ Quiet
    /\ pc[c] = "fetch"
    /\ Finish(c, Caught(RuntimeError("TypeError", "fetch failed")))
    /\ UNCHANGED <<now, cache, req, outbound, hist, listed>>

\* response.json() resolves with the parsed body: the handler runs to its
\* return
JsonResolve(c, data) ==
    /\ Quiet
    /\ pc[c] = "json"
    /\ \E out \in {AfterJson(hist[c], local[c], req[c].arguments, cache, data, now)} :
           /\ Finish(c, out.result)
           /\ cache' = out.cache
           /\ hist' = [hist EXCEPT ![c] = out.hist]
    /\ UNCHANGED <<now, req, outbound, listed>>

\* a handler that drops the entry of its key when the body is no JSON
JsonRejectEvicting(c) ==
    /\ Quiet
    /\ pc[c] = "json"
    /\ Finish(c, Caught(RuntimeError("SyntaxError", "Unexpected token")))
    /\ cache' = MapDelete(cache, local[c].cache_key)
    /\ UNCHANGED <<now, req, outbound, hist, listed>>

\* response.json() rejects: the body is no JSON
JsonReject(c) ==
    /\ Quiet
    /\ pc[c] = "json"
    /\ Finish(c, Caught(RuntimeError("SyntaxError", "Unexpected token")))
    /\ UNCHANGED <<now, cache, req, outbound, hist, listed>>

\* the transport takes the call's result, or its error, and the slot is free
Return(c) ==
    /\ pc[c] = "done"
    /\ pc' = [pc EXCEPT ![c] = "idle"]
    /\ req' = [req EXCEPT ![c] = NoRequest]
    /\ local' = [local EXCEPT ![c] = NoLocal]
    /\ result' = [result EXCEPT ![c] = NoResult]
    /\ hist' = [hist EXCEPT ![c] = NoHist]
    /\ UNCHANGED <<now, cache, outbound, listed>>

\* a tools/list request arrives: its handler returns the registry
ListTools ==
    /\ Quiet
    /\ listed' = ListToolsResult
    /\ UNCHANGED <<now, cache, pc, req, local, result, outbound, hist>>

\* the transport takes the listing
ListReturn ==
    /\ listed # NoListing
    /\ listed' = NoListing
    /\ UNCHANGED <<now, cache, pc, req, local, result, outbound, hist>>

\* time passes
Tick(d) ==
    /\ Quiet
    /\ now + d <= MaxNow
    /\ now' = now + d
    /\ UNCHANGED <<cache, pc, req, local, result, outbound, hist, listed>>

Next ==
    \/ \E c \in Calls, r \in Requests : CallTool(c, r)
    \/ \E c \in Calls, response \in Responses : FetchResolve(c, response)
    \/ \E c \in Calls : FetchReject(c)
    \/ \E c \in Calls, data \in Bodies : JsonResolve(c, data)
    \/ \E c \in Calls : JsonReject(c)
    \/ \E c \in Calls : Return(c)
    \/ ListTools
    \/ ListReturn
    \/ \E d \in ClockSteps : Tick(d)

Spec == Init /\ [][Next]_vars

\* the provider settles what call c awaits: fetch resolves or rejects, and
\* so does response.json()
Settle(c) ==
    \/ \E response \in Responses : FetchResolve(c, response)
    \/ FetchReject(c)
    \/ \E data \in Bodies : JsonResolve(c, data)
    \/ JsonReject(c)

\* the requests of the server with a fair provider: one that is answered
\* from the cache or asks the provider and writes, one that asks and writes
\* nothing, one that fails validation and one for a tool that is not there
LiveRequests ==
    { [name |-> "tavily_search", arguments |-> Bag(Q)],
      [name |-> "tavily_get_search_context", arguments |-> Bag(Q)],
      [name |-> "tavily_qna_search",
       arguments |-> Bag(With(NoFields, "query", Num(42)))],
      [name |-> "tavily_extract", arguments |-> Bag(Q)] }

LiveNext ==
    \/ \E c \in Calls, r \in LiveRequests : CallTool(c, r)
    \/ \E c \in Calls : Settle(c)
    \/ \E c \in Calls : Return(c)
    \/ ListTools
    \/ ListReturn
    \/ \E d \in ClockSteps : Tick(d)

\* the server with a provider that settles every request it is sent and a
\* transport that takes every result.  A promise settles whatever the other
\* calls do; the model holds it back only while a finished call is handed to
\* the transport, so the fairness is strong.
SpecLive ==
    /\ Init /\ [][LiveNext]_vars
    /\ \A c \in Calls : SF_vars(Settle(c)) /\ WF_vars(Return(c))
    /\ WF_vars(ListReturn)

(***************************************************************************)
(* One call on its own: a request arrives at the fresh server, the         *)
(* provider answers 200 with a JSON body, and the handler runs to its      *)
(* return with no other call and no clock step in between.  The requests   *)
(* and the bodies are drawn from wider sets than those of Spec.            *)
(***************************************************************************)
\* the properties of fs that are not undefined
Present(fs) == [f \in {g \in DOMAIN fs : fs[g] # Undefined} |-> fs[f]]

Queries == {Undefined, Str(""), Str("q"), Num(42)}

Depths == {Undefined, Str("basic"), Str("advanced")}

SearchChoices ==
    [query : Queries, search_depth : Depths,
     max_results : {Undefined, Num(3)},
     include_answer : {Undefined, Bool(TRUE), Bool(FALSE)},
     include_images : {Undefined, Bool(TRUE)},
     include_raw_content : {Undefined, Bool(TRUE)},
     include_domains : {Undefined, Arr(<< "example.com" >>)},
     exclude_domains : {Undefined, Arr(<< "spam.example" >>)},
     verbose : {Undefined, Bool(TRUE)}]

ContextChoices ==
    [query : Queries, search_depth : Depths,
     max_tokens : {Undefined} \cup {Num(k) : k \in -MaxTokens..MaxTokens},
     include_domains : {Undefined, Arr(<< "example.com" >>)},
     exclude_domains : {Undefined, Arr(<< "spam.example" >>)},
     verbose : {Undefined, Bool(TRUE)}]

QnaChoices ==
    [query : Queries, search_depth : Depths,
     include_answer : {Undefined, Bool(TRUE), Bool(FALSE)},
     include_sources : {Undefined, Bool(TRUE), Bool(FALSE)},
     response_format : {Undefined, Str("json")},
     include_domains : {Undefined, Arr(<< "example.com" >>)},
     exclude_domains : {Undefined, Arr(<< "spam.example" >>)},
     verbose : {Undefined, Bool(TRUE)}]

AloneRequests ==
    {[name |-> "tavily_search", arguments |-> Bag(Present(fs))] :
        fs \in SearchChoices}
    \cup {[name |-> "tavily_get_search_context", arguments |-> Bag(Present(fs))] :
        fs \in ContextChoices}
    \cup {[name |-> "tavily_qna_search", arguments |-> Bag(Present(fs))] :
        fs \in QnaChoices}

ResultLists ==
    {<< >>, << Result1 >>, << Result2 >>, << Result1, Result2 >>,
     << Result2, Result1 >>}

AloneBodies ==
    {Body("q", answer, TRUE, results) :
        answer \in {Undefined, Str(""), Str("Rust uses ownership.")},
        results \in ResultLists}
    \cup {Body("q", Undefined, FALSE, << >>)}

\* the server has handled no call yet
Fresh == \A c \in Calls : pc[c] = "idle"

\* the call handler on request r, from the request to its return, the
\* provider answering with `data`
AloneOutcome(r, data, c, t) ==
    LET out == Handle(r, c, t)
    IN  IF out.pc = "done" THEN out
        ELSE AfterJson(out.hist, out.local, r.arguments, out.cache, data, t)

\* request r arrives at the fresh server and its call runs to its return
RunAlone(r, data) ==
    /\ \E end \in {AloneOutcome(r, data, cache, now)} :
           /\ pc' = [pc EXCEPT ![1] = "done"]
           /\ req' = [req EXCEPT ![1] = r]
           /\ local' = [local EXCEPT ![1] = end.local]
           /\ result' = [result EXCEPT ![1] = end.result]
           /\ hist' = [hist EXCEPT ![1] = end.hist]
           /\ cache' = end.cache
           /\ outbound' = outbound + end.hist.fetches
    /\ UNCHANGED <<now, listed>>

AloneNext ==
    Fresh /\ \E r \in AloneRequests, data \in AloneBodies : RunAlone(r, data)

SpecAlone == Init /\ [][AloneNext]_vars

(***************************************************************************)
(* TavilyCache on its own: set and get with any key, value and ttl, and    *)
(* the clock moving in steps of half a second.  The last get is recorded   *)
(* in hist[1]: what it found, and in `data` what it returned.              *)
(***************************************************************************)
CacheKeys == {"a", "b"}

CacheValues == Bodies

\* the ttl of an entry, in seconds
Ttls == 0..MaxTtl

CacheClockSteps == {500}

\* cache.set(key, data, ttl)
CacheSetStep(key, data, ttl) ==
    /\ cache' = CacheSet(cache, key, data, ttl, now)
    /\ hist' = [hist EXCEPT ![1] = NoHist]
    /\ UNCHANGED <<now, pc, req, local, result, outbound, listed>>

\* cache.get(key)
CacheGetStep(key) ==
    /\ \E got \in {CacheGet(cache, key, now)} :
           /\ cache' = got.cache
           /\ hist' = [hist EXCEPT ![1] =
                          [NoHist EXCEPT !.got = GetRecord(cache, key, now, got),
                                         !.data = got.data]]
    /\ UNCHANGED <<now, pc, req, local, result, outbound, listed>>

\* time passes
CacheTick(d) ==
    /\ now + d <= MaxCacheNow
    /\ now' = now + d
    /\ hist' = [hist EXCEPT ![1] = NoHist]
    /\ UNCHANGED <<cache, pc, req, local, result, outbound, listed>>

CacheNext ==
    \/ \E key \in CacheKeys, data \in CacheValues, ttl \in Ttls :
          CacheSetStep(key, data, ttl)
    \/ \E key \in CacheKeys : CacheGetStep(key)
    \/ \E d \in CacheClockSteps : CacheTick(d)

SpecCache == Init /\ [][CacheNext]_vars

(***************************************************************************)
(* The text formatter alone: response_formatters.text applied to search   *)
(* responses of every shape.                                               *)
(***************************************************************************)
FormatQueries == {"q", "rust"}

FormatAnswers == {Undefined, Str(""), Str("Rust uses ownership.")}

FormatResults == UNION {[1..k -> {Result1, Result2, Result3}] : k \in 0..MaxResults}

FormatBodies ==
    {Body(query, answer, TRUE, results) :
        query \in FormatQueries, answer \in FormatAnswers, results \in FormatResults}

\* response_formatters.text(data); the response and its text are kept
FormatStep(data) ==
    /\ result' = [result EXCEPT ![1] = TextResult(FormatText(data))]
    /\ hist' = [hist EXCEPT ![1] = [NoHist EXCEPT !.data = data]]
    /\ UNCHANGED <<now, cache, pc, req, local, outbound, listed>>

FormatNext == \E data \in FormatBodies : FormatStep(data)

SpecFormat == Init /\ [][FormatNext]_vars

(***************************************************************************)
(* The claims.                                                             *)
(***************************************************************************)
Registered == {"tavily_search", "tavily_get_search_context", "tavily_qna_search"}

\* the request's query is missing or is no string
BadQuery(r) == TypeOf(Field(r.arguments, "query")) # "string"

\* call c ended with a result that reports no error
Succeeded(c) ==
    /\ pc[c] = "done"
    /\ result[c].kind = "result"
    /\ result[c].isError = Undefined

\* the arguments the cache key of tavily_search leaves out
KeyBlind == {"max_results", "include_domains", "exclude_domains", "response_format"}

\* two argument bags that differ at most in the fields of KeyBlind
DifferOnlyKeyBlind(a, b) ==
    /\ a.defined /\ b.defined
    /\ \A f \in FieldNames \ KeyBlind : Field(a, f) = Field(b, f)

\* the cache key handle_search computes for a raw argument bag
KeyOf(rawArgs) == CacheKey(SearchDefaults(Args(rawArgs, SearchFields)))

\* C1: cache.get never returns an entry whose age is greater than its ttl in
\* seconds; a get that finds such an entry returns nothing and deletes it.
C1_GetNeverReturnsExpired ==
    \A c \in Calls :
        hist[c].got.called =>
            /\ hist[c].got.hit =>
                  /\ hist[c].got.had
                  /\ hist[c].got.age <= hist[c].got.ttl * MsPerSecond
            /\ (hist[c].got.had /\ hist[c].got.age > hist[c].got.ttl * MsPerSecond)
                  => (~hist[c].got.hit /\ ~hist[c].got.kept)

\* a get found an expired entry
C1_Witness ==
    \E c \in Calls :
        /\ hist[c].got.called /\ hist[c].got.had
        /\ hist[c].got.age > hist[c].got.ttl * MsPerSecond
        /\ ~hist[c].got.hit /\ ~hist[c].got.kept

\* C2: a tavily_search call computes the same cache key as every call that
\* differs from it only in max_results, include_domains, exclude_domains or
\* response_format, and when the entry under that key has not expired the call
\* is answered from the cache and makes no backend call.
C2_KeyBlindFieldsShareEntry ==
    \A c \in Calls :
        hist[c].handler = "handle_search" =>
            \A b \in SearchBags :
                DifferOnlyKeyBlind(b, req[c].arguments) =>
                    /\ KeyOf(b) = hist[c].got.key
                    /\ (hist[c].got.had
                        /\ hist[c].got.age <= hist[c].got.ttl * MsPerSecond)
                          => (Succeeded(c) /\ hist[c].got.hit
                              /\ hist[c].fetches = 0)

\* a call was answered from the cache, and another request differs from it
\* only in the fields the key leaves out
C2_Witness ==
    \E c \in Calls :
        /\ Succeeded(c) /\ hist[c].got.hit /\ hist[c].fetches = 0
        /\ outbound = 1
        /\ Field(req[c].arguments, "max_results") = Num(3)
        /\ \E b \in SearchBags :
              /\ b # req[c].arguments
              /\ DifferOnlyKeyBlind(b, req[c].arguments)
              /\ KeyOf(b) = hist[c].got.key

\* C3: a tavily_search call with force_refresh = true always makes a backend
\* call, whatever the cache holds for its key.
C3_ForceRefreshFetches ==
    \A c \in Calls :
        (hist[c].handler = "handle_search"
         /\ Field(req[c].arguments, "force_refresh") = Bool(TRUE))
            => (hist[c].fetches = 1 /\ ~hist[c].got.hit)

\* the formatter response_format names, text when it names none
Rendered(rawArgs, data) ==
    CASE Default(Field(rawArgs, "response_format"), Str("text")) = Str("json") ->
            FormatJson(data)
      [] Default(Field(rawArgs, "response_format"), Str("text")) = Str("markdown") ->
            FormatMarkdown(data)
      [] OTHER -> FormatText(data)

\* C4: the text tavily_search returns is the rendering of the response by the
\* formatter its response_format selects, text when response_format is absent,
\* on the miss path and on the hit path.
C4_FormatterSelected ==
    \A c \in Calls :
        (Succeeded(c) /\ hist[c].handler = "handle_search"
         /\ hist[c].got.key \in DOMAIN cache
         /\ cache[hist[c].got.key].data.hasResults)
            => result[c].content[1].text
                 = Rendered(req[c].arguments, cache[hist[c].got.key].data)

\* C5: for each of the three tools, a request whose query is missing or is no
\* string fails validation and the tool's handler is never entered.
C5_BadQueryFailsValidation ==
    \A c \in Calls :
        (pc[c] # "idle" /\ req[c].name \in Registered /\ BadQuery(req[c])) =>
            /\ pc[c] = "done"
            /\ hist[c].handler = "none"
            /\ result[c].error.class = "McpError"
            /\ result[c].error.code = InvalidParams

\* a qna request whose query is a number failed validation
C5_Witness ==
    \E c \in Calls :
        /\ pc[c] = "done" /\ req[c].name = "tavily_qna_search"
        /\ Field(req[c].arguments, "query") = Num(42)
        /\ hist[c].handler = "none"
        /\ result[c].error.code = InvalidParams

\* C6: a call that fails validation makes no backend call and neither reads
\* nor writes the cache: the number of outbound requests and the cache are the
\* same after the call as before it.
C6_ValidationFailureTouchesNothing ==
    [][\A c \in Calls :
          (pc[c] = "idle" /\ pc'[c] # "idle"
           /\ req'[c].name \in Registered /\ BadQuery(req'[c]))
             => /\ cache' = cache
                /\ outbound' = outbound
                /\ ~hist'[c].got.called
                /\ hist'[c].fetches = 0 /\ hist'[c].sets = 0]_vars

\* a call failed validation while the cache held an entry
C6_Witness ==
    \E c \in Calls :
        /\ pc[c] = "done" /\ req[c].name = "tavily_search" /\ BadQuery(req[c])
        /\ DOMAIN cache # {}
        /\ outbound > 0

\* C7: every error raised in an invocation of a registered tool is returned
\* as a result {content: [{type: "text", text}], isError: true}; none leaves
\* the call handler.
C7_ErrorsBecomeResults ==
    \A c \in Calls :
        (pc[c] = "done" /\ req[c].name \in Registered
         /\ result[c].error.class # "none") =>
            /\ result[c].kind = "result"
            /\ result[c].isError = Bool(TRUE)
            /\ Len(result[c].content) = 1
            /\ result[c].content[1].type = "text"
            /\ result[c].content[1].text # ""

\* a non-success status of the provider came back as an error result
C7_Witness ==
    \E c \in Calls :
        /\ pc[c] = "done" /\ result[c].error.class = "TavilyError"
        /\ result[c].kind = "result" /\ result[c].isError = Bool(TRUE)

\* C8: a request whose tool name is not registered ends with a thrown
\* "method not found" error, with no argument validation, no cache access and
\* no backend call.
C8_UnknownToolThrows ==
    \A c \in Calls :
        (pc[c] # "idle" /\ req[c].name \notin Registered) =>
            /\ pc[c] = "done"
            /\ result[c].kind = "thrown"
            /\ result[c].error.class = "McpError"
            /\ result[c].error.code = MethodNotFound
            /\ hist[c].handler = "none"
            /\ ~hist[c].got.called
            /\ hist[c].fetches = 0

\* an unknown tool was called with no arguments and with the cache in use
C8_Witness ==
    \E c \in Calls :
        /\ pc[c] = "done" /\ req[c].name = "tavily_extract"
        /\ ~req[c].arguments.defined
        /\ result[c].kind = "thrown"
        /\ DOMAIN cache # {}

\* C9: a request for a registered tool whose query is missing or is no string
\* ends with a thrown "invalid params" error, not with a result that carries
\* isError = true.
C9_BadQueryThrowsInvalidParams ==
    \A c \in Calls :
        (pc[c] = "done" /\ req[c].name \in Registered /\ BadQuery(req[c])) =>
            /\ result[c].kind = "thrown"
            /\ result[c].error.code = InvalidParams

\* C10: the entry a tavily_search miss writes has ttl equal to the call's
\* cache_ttl, and 3600 when the call gives none.
C10_EntryTtlIsCacheTtl ==
    \A c \in Calls :
        (Succeeded(c) /\ hist[c].handler = "handle_search" /\ hist[c].sets = 1) =>
            /\ hist[c].got.key \in DOMAIN cache
            /\ cache[hist[c].got.key].ttl
                 = Default(Field(req[c].arguments, "cache_ttl"), Num(3600)).n

\* the request's query is a non-empty string
GoodQuery(r) ==
    /\ TypeOf(Field(r.arguments, "query")) = "string"
    /\ Field(r.arguments, "query").s # ""

\* the tools whose handlers have no cache code
Uncached == {"tavily_get_search_context", "tavily_qna_search"}

\* the cache holds an entry under `key` that has not expired
CachedFresh(key) ==
    /\ key \in DOMAIN cache
    /\ now - cache[key].timestamp <= cache[key].ttl * MsPerSecond

\* C11: tavily_get_search_context and tavily_qna_search never read or write
\* the cache: no step of such a call changes the cache, the call records no
\* cache.get and no cache.set, and every such call with a valid query posts a
\* request to the provider when it arrives, whatever the cache holds.
C11_ContextAndQnaBypassCache ==
    [][\A c \in Calls :
          (pc'[c] # pc[c] /\ req'[c].name \in Uncached) =>
              /\ cache' = cache
              /\ ~hist'[c].got.called /\ hist'[c].sets = 0
              /\ (pc[c] = "idle" /\ GoodQuery(req'[c])) =>
                    (pc'[c] = "fetch" /\ outbound' = outbound + 1)]_vars

\* a context or QnA call got its answer from the provider while the cache
\* held a fresh entry of tavily_search for the same arguments
C11_Witness ==
    \E c \in Calls :
        /\ req[c].name \in Uncached /\ Succeeded(c)
        /\ hist[c].fetches = 1 /\ outbound = 2
        /\ CachedFresh(KeyOf(req[c].arguments))

\* C12: every invocation posts at most one request to the provider: one when
\* it arrives if it is a tavily_search with a valid query and no fresh entry
\* under its key, or a context or QnA call with a valid query; none if the
\* entry is fresh; and none at any later step, so a call whose request failed
\* ends without posting again.
C12_AtMostOneFetchPerCall ==
    [][/\ outbound' \in {outbound, outbound + 1}
       /\ (outbound' = outbound + 1) =>
             \E c \in Calls : pc[c] = "idle" /\ pc'[c] = "fetch"
       /\ \A c \in Calls :
             /\ (pc[c] = "idle" /\ pc'[c] # "idle") =>
                   /\ outbound' = outbound + (IF pc'[c] = "fetch" THEN 1 ELSE 0)
                   /\ (req'[c].name \in Uncached /\ GoodQuery(req'[c]))
                         => pc'[c] = "fetch"
                   /\ (req'[c].name = "tavily_search" /\ GoodQuery(req'[c])) =>
                         IF CachedFresh(KeyOf(req'[c].arguments))
                         THEN /\ pc'[c] = "done"
                              /\ result'[c].kind = "result"
                              /\ result'[c].isError = Undefined
                         ELSE pc'[c] = "fetch"
             /\ pc[c] = "fetch" => pc'[c] \in {"fetch", "json", "done"}
             /\ pc[c] = "json" => pc'[c] \in {"json", "done"}
             /\ hist'[c].fetches <= 1]_vars

\* a call whose request failed on the network ended with an error result,
\* and the provider was asked once
C12_Witness ==
    \E c \in Calls :
        /\ pc[c] = "done" /\ hist[c].handler = "handle_search"
        /\ result[c].isError = Bool(TRUE)
        /\ result[c].error.class = "TypeError"
        /\ hist[c].fetches = 1 /\ outbound = 1

\* `sub` occurs in `str`
Contains(str, sub) ==
    \E i \in 1..(Len(str) - Len(sub) + 1) : SubSeq(str, i, i + Len(sub) - 1) = sub

\* C13: when the provider answers with a non-success status, the call ends
\* with an error result of the backend error class whose text carries the
\* provider's status code and its status text, and that differs from the
\* text reported when the network fails.
C13_BackendErrorReportsStatus ==
    \A c \in Calls :
        (pc[c] = "done" /\ result[c].error.class = "TavilyError") =>
            /\ result[c].kind = "result" /\ result[c].isError = Bool(TRUE)
            /\ result[c].content[1].text
                  # format_error(RuntimeError("TypeError", "fetch failed"))
            /\ \E response \in Responses :
                  /\ ~response.ok /\ response.status = result[c].error.status
                  /\ Contains(result[c].content[1].text, response.statusText)
                  /\ Contains(result[c].content[1].text, ToString(response.status))

\* the contents of the results the provider gave call c, in order, with a
\* blank line between them
Contents(c) ==
    Join([i \in 1..Len(hist[c].data.results) |-> hist[c].data.results[i].content],
         "\n\n")

\* the max_tokens of call c: the caller's, 2000 when the caller gave none
AskedTokens(c) ==
    IF Field(req[c].arguments, "max_tokens") = Undefined THEN 2000
    ELSE Field(req[c].arguments, "max_tokens").n

Min(a, b) == IF a < b THEN a ELSE b

\* call c is a tavily_get_search_context call that returned a context
GaveContext(c) == hist[c].handler = "handle_context" /\ Succeeded(c)

\* C14 as stated: for every result list and every supplied max_tokens (2000
\* when absent), tavily_get_search_context returns the first max_tokens
\* characters of the contents joined with a blank line; the text is
\* min(max_tokens, length of the joined contents) long and never longer than
\* max_tokens.
C14_ContextIsFirstMaxTokens ==
    \A c \in Calls :
        GaveContext(c) =>
            /\ Len(result[c].content[1].text) <= AskedTokens(c)
            /\ Len(result[c].content[1].text) = Min(AskedTokens(c), Len(Contents(c)))
            /\ result[c].content[1].text
                  = SubSeq(Contents(c), 1, Min(AskedTokens(c), Len(Contents(c))))

\* C14 amended: the same for every max_tokens that is not negative.
C14_ContextIsFirstMaxTokensNonNegative ==
    \A c \in Calls :
        (GaveContext(c) /\ AskedTokens(c) >= 0) =>
            /\ Len(result[c].content[1].text) <= AskedTokens(c)
            /\ Len(result[c].content[1].text) = Min(AskedTokens(c), Len(Contents(c)))
            /\ result[c].content[1].text
                  = SubSeq(Contents(c), 1, Min(AskedTokens(c), Len(Contents(c))))

\* a context was cut: the caller's max_tokens is positive and smaller than the
\* length of the joined contents of two results
C14_Witness ==
    \E c \in Calls :
        /\ GaveContext(c)
        /\ Len(hist[c].data.results) = 2
        /\ AskedTokens(c) > 0 /\ AskedTokens(c) < Len(Contents(c))
        /\ Len(result[c].content[1].text) = AskedTokens(c)

\* call c is a tavily_qna_search call that returned an answer text
GaveAnswer(c) == hist[c].handler = "handle_qna" /\ Succeeded(c)

Names(tools) == [i \in 1..Len(tools) |-> tools[i].name]

\* C16: whenever a tools/list request is answered, after any calls and while
\* any calls are in flight, the answer is the three descriptors in the order
\* tavily_search, tavily_get_search_context, tavily_qna_search.
C16_ListingIsTheThreeTools ==
    listed # NoListing =>
        Names(listed)
          = << "tavily_search", "tavily_get_search_context", "tavily_qna_search" >>

\* a listing was answered after one call had filled the cache and another had
\* failed or is still waiting for the provider
C16_Witness ==
    /\ listed # NoListing
    /\ DOMAIN cache # {}
    /\ outbound >= 2
    /\ \E c \in Calls : pc[c] = "json"

\* the descriptor of the tool called `name`
ToolNamed(name) ==
    TAVILY_TOOLS[CHOOSE i \in 1..Len(TAVILY_TOOLS) : TAVILY_TOOLS[i].name = name]

\* the fields of rawArgs the call handler copies for each tool
FieldsRead(name) ==
    CASE name = "tavily_search" -> SearchFields
      [] name = "tavily_get_search_context" -> ContextFields
      [] OTHER -> QnaFields

\* C17: for every tool, the input schema lists every field the handler reads,
\* and a field the caller omits goes to the provider with the default the
\* schema declares for it; so for include_answer and max_results of
\* tavily_search.
C17_SchemaDefaultsAreHandlerDefaults ==
    \A c \in Calls :
        hist[c].fetches = 1 =>
            /\ FieldsRead(req[c].name) \subseteq ToolNamed(req[c].name).properties
            /\ \A f \in DOMAIN ToolNamed(req[c].name).defaults \cap DOMAIN hist[c].body :
                  Field(req[c].arguments, f) = Undefined
                    => hist[c].body[f] = ToolNamed(req[c].name).defaults[f]

\* the value of field f that goes out for the arguments a: the caller's, or d
\* when the caller gave none
Sent(a, f, d) == IF Field(a, f) = Undefined THEN d ELSE Field(a, f)

DeclaredDefault(name, f) ==
    CASE f = "search_depth" ->
            (IF name = "tavily_search" THEN Str("basic") ELSE Str("advanced"))
      [] f = "topic" -> Str("general")
      [] f = "max_results" -> Num(5)
      [] f = "max_tokens" -> Num(2000)
      [] f \in {"include_images", "include_image_descriptions", "include_answer",
                "include_raw_content"} -> Bool(FALSE)
      [] f \in {"include_domains", "exclude_domains"} -> Arr(<< >>)
      [] OTHER -> Undefined

\* call c passed the argument check and every optional field of its
\* parameters, as posted and as used in the cache key, is the caller's value
\* or else the declared default
Normalized(c) ==
    /\ result[c].error # InvalidQuery
    /\ hist[c].fetches = 1 \/ hist[c].got.hit
    /\ hist[c].fetches = 1 =>
          /\ \A f \in FieldsRead(req[c].name) \ {"query"} :
                hist[c].body[f]
                  = Sent(req[c].arguments, f, DeclaredDefault(req[c].name, f))
          /\ hist[c].body["query"] = Field(req[c].arguments, "query")
          /\ hist[c].handler = "handle_search" =>
                hist[c].got.key
                  = JsonCompact(<< <<"query", JsonValue(hist[c].body["query"])>>,
                       <<"search_depth", JsonValue(hist[c].body["search_depth"])>>,
                       <<"topic", JsonValue(hist[c].body["topic"])>>,
                       <<"include_answer", JsonValue(hist[c].body["include_answer"])>>,
                       <<"include_images", JsonValue(hist[c].body["include_images"])>>,
                       <<"include_raw_content",
                         JsonValue(hist[c].body["include_raw_content"])>> >>)

C21_CacheRoundTrip ==
    /\ \A key \in CacheKeys, data \in CacheValues, ttl \in Ttls :
          LET stored == CacheSet(cache, key, data, ttl, now)
          IN  /\ CacheGet(stored, key, now).data = data
              /\ \A past \in {1} \cup CacheClockSteps \cup {MaxCacheNow} :
                    CacheGet(stored, key, now + ttl * MsPerSecond + past).data
                      = NoData
    /\ \A key \in CacheKeys \ DOMAIN cache : CacheGet(cache, key, now).data = NoData
    /\ hist[1].got.called =>
          /\ hist[1].got.hit <=>
                (hist[1].got.had /\ hist[1].got.age <= hist[1].got.ttl * MsPerSecond)
          /\ ~hist[1].got.hit => hist[1].data = NoData
          /\ hist[1].got.hit => hist[1].data \in CacheValues

\* a get returned the value of an entry exactly ttl seconds old, with ttl not
\* zero, while the map holds a second entry
C21_Witness ==
    /\ hist[1].got.called /\ hist[1].got.hit
    /\ hist[1].got.ttl > 0
    /\ hist[1].got.age = hist[1].got.ttl * MsPerSecond
    /\ hist[1].data.defined
    /\ DOMAIN cache = CacheKeys

\* the fields a tool does not know: neither in its input schema nor read by
\* its handler
UnknownFields(name) ==
    FieldNames \ (ToolNamed(name).properties \cup FieldsRead(name))

\* the request r without the fields its tool does not know
Known(r) ==
    [name |-> r.name,
     arguments |->
        [defined |-> r.arguments.defined,
         f |-> [g \in DOMAIN r.arguments.f \ UnknownFields(r.name) |->
                    r.arguments.f[g]]]]

\* C22: fields of the argument bag that the tool does not know are ignored:
\* a call ends as the call with the same arguments less those fields ends on
\* the same server with the same provider answer: accepted or rejected alike,
\* with the same cache key, the same posted body and the same result.
C22_UnknownFieldsIgnored ==
    \A c \in Calls :
        (pc[c] = "done" /\ req[c].name \in Registered) =>
            LET twin == AloneOutcome(Known(req[c]), hist[c].data, << >>, 0)
            IN  /\ twin.result = result[c]
                /\ twin.hist.body = hist[c].body
                /\ twin.hist.got.key = hist[c].got.key
                /\ twin.hist.fetches = hist[c].fetches
                /\ twin.cache = cache

\* a tavily_search call that carried an unknown field was accepted and
\* answered by the provider
C22_Witness ==
    \E c \in Calls :
        /\ req[c].name = "tavily_search" /\ Succeeded(c)
        /\ Field(req[c].arguments, "verbose") = Bool(TRUE)
        /\ Known(req[c]) # req[c]
        /\ hist[c].fetches = 1
        /\ "verbose" \notin DOMAIN hist[c].body

\* the calls that wait for the provider
InFlight == {c \in Calls : pc[c] \in {"fetch", "json"}}

\* C23: every tavily_search call that read the cache before any other had
\* written, and so is waiting for the provider, has posted a request of its
\* own, however many identical calls wait with it: N calls in flight are N
\* posted requests; and a waiting call is held up by no other waiting call:
\* the outcome of its own request can reach it at once.
C23_ConcurrentMissesEachFetch ==
    /\ \A c \in InFlight :
          /\ hist[c].fetches = 1
          /\ hist[c].handler = "handle_search" =>
                (hist[c].got.called /\ ~hist[c].got.hit)
          /\ Quiet =>
                IF pc[c] = "fetch" THEN ENABLED FetchReject(c)
                                   ELSE ENABLED JsonReject(c)
    /\ outbound >= Cardinality(InFlight)

\* two identical tavily_search calls wait for the provider at once: both
\* found the cache empty and both posted a request
C23_Witness ==
    \E c, d \in InFlight :
        /\ c # d
        /\ req[c] = req[d] /\ req[c].name = "tavily_search"
        /\ local[c].cache_key = local[d].cache_key
        /\ ~hist[c].got.had /\ ~hist[d].got.had
        /\ hist[c].fetches = 1 /\ hist[d].fetches = 1
        /\ outbound = 2

\* the first place where `sub` occurs in `str`; 0 when it does not occur
Pos(str, sub) ==
    LET at == {i \in 1..(Len(str) - Len(sub) + 1) :
                  SubSeq(str, i, i + Len(sub) - 1) = sub}
    IN  IF at = {} THEN 0 ELSE CHOOSE i \in at : \A j \in at : i <= j

\* how many times `sub` occurs in `str`
Count(str, sub) ==
    Cardinality({i \in 1..(Len(str) - Len(sub) + 1) :
                    SubSeq(str, i, i + Len(sub) - 1) = sub})

\* the text is laid out as a header line naming the query, a summary block
\* exactly when the answer is not empty, and one block for each result,
\* numbered from 1 in the order of the results, with the title, the URL, the
\* content, and a Published line exactly when Dated(published_date)
TextLayout(text, data, Dated(_)) ==
    LET n == Len(data.results)
        header == "Search Results for \"" \o data.query \o "\":\n"
        start(i) == ToString(i) \o ". " \o data.results[i].title \o "\n"
        first(i) == Pos(text, start(i))
        last(i) == IF i < n THEN Pos(text, start(i + 1)) - 1 ELSE Len(text)
        block(i) == SubSeq(text, first(i), last(i))
    IN  /\ SubSeq(text, 1, Len(header)) = header
        /\ Contains(text, "Summary: ") <=>
              (data.answer.type = "string" /\ data.answer.s # "")
        /\ Contains(text, "Summary: ") =>
              /\ Pos(text, "Summary: " \o data.answer.s \o "\n") = Len(header) + 2
              /\ n > 0 => Pos(text, "Summary: ") < first(1)
        /\ Count(text, "   URL: ") = n
        /\ Count(text, "   Content: ") = n
        /\ ~Contains(text, ToString(n + 1) \o ". ")
        /\ ~Contains(text, "0. ")
        /\ \A i \in 1..n :
              /\ first(i) > Len(header)
              /\ i < n => first(i) < first(i + 1)
              /\ Count(block(i), "   URL: " \o data.results[i].url \o "\n") = 1
              /\ Count(block(i), "   Content: " \o data.results[i].content \o "\n") = 1
              /\ Pos(block(i), "   URL: ") < Pos(block(i), "   Content: ")
              /\ Contains(block(i), "   Published: ") <=>
                    Dated(data.results[i].published_date)
              /\ Contains(block(i), "   Published: ") =>
                    Count(block(i), "   Published: "
                               \o data.results[i].published_date.s \o "\n") = 1

\* C24: the text format of a response with n results is a header line naming
\* the query, a summary block exactly when the answer is not empty, and
\* exactly n blocks numbered 1..n in the order of the results, each with the
\* title, the URL, the content, and a Published line exactly when the result
\* has a published_date.
C24_TextLayout ==
    hist[1].data.defined =>
        TextLayout(result[1].content[1].text, hist[1].data,
                   LAMBDA date : date # Undefined)

\* C24, amended: as above, the Published line being there exactly when the
\* result has a published_date that is not the empty string.
C24_TextLayoutNonEmptyDate ==
    hist[1].data.defined =>
        TextLayout(result[1].content[1].text, hist[1].data,
                   LAMBDA date : date # Undefined /\ date # Str(""))

\* a response with an answer and three results, with and without a
\* published_date, was formatted
C24_Witness ==
    /\ hist[1].data.defined /\ result[1].kind = "result"
    /\ hist[1].handler = "none"
    /\ Truthy(hist[1].data.answer)
    /\ Len(hist[1].data.results) = 3
    /\ hist[1].data.results[1].published_date = Undefined
    /\ hist[1].data.results[2].published_date = Str("2024-01-01")
    /\ Contains(result[1].content[1].text, "   Published: 2024-01-01\n")

\* the six arguments of the claim
KeyFields ==
    {"query", "search_depth", "topic", "include_answer", "include_images",
     "include_raw_content"}

\* values a caller may give for an argument of tavily_search
FieldValues(f) ==
    CASE f = "query" -> {Str("q"), Str("rust")}
      [] f = "search_depth" -> {Undefined, Str("basic"), Str("advanced")}
      [] f = "topic" -> {Undefined, Str("general"), Str("news")}
      [] f \in {"include_answer", "include_images", "include_raw_content",
                "include_image_descriptions"} ->
            {Undefined, Bool(TRUE), Bool(FALSE)}
      [] f \in {"days", "max_results"} -> {Undefined, Num(3), Num(5)}
      [] f = "time_range" -> {Undefined, Str("week")}
      [] OTHER -> {Undefined, Arr(<< >>), Arr(<< "example.com" >>)}

\* the argument bag with field f given as v, left out when v is undefined
Given(rawArgs, f, v) == Bag(Present(With(rawArgs.f, f, v)))

\* the argument bags that differ from rawArgs in one of the six arguments at
\* most and in one more argument at most
Variants(rawArgs) ==
    {Given(Given(rawArgs, f, v), g, w) :
        <<f, v, g, w>> \in
            UNION {{f} \X FieldValues(f) \X {g} \X FieldValues(g) :
                      <<f, g>> \in KeyFields \X SearchFields}}

\* the two argument bags agree, after defaults, on the six arguments
AgreeOnKeyFields(a, b) ==
    \A f \in KeyFields :
        SearchDefaults(Args(a, SearchFields))[f]
          = SearchDefaults(Args(b, SearchFields))[f]

\* C25: two tavily_search requests have the same cache key exactly when,
\* after defaults, they agree on query, search_depth, topic, include_answer,
\* include_images and include_raw_content; no other argument (days,
\* time_range, max_results, include_image_descriptions, the domain lists)
\* changes the key.  The key is computed before the provider is asked: each
\* request is compared with its variants once, in the state where the
\* provider answered it with the body that has no results.
C25_KeyIsTheSixFields ==
    \A c \in Calls :
        (pc[c] = "done" /\ hist[c].handler = "handle_search"
         /\ hist[c].got.called) =>
            /\ hist[c].got.key = KeyOf(req[c].arguments)
            /\ ~hist[c].data.hasResults =>
                  /\ \A other \in Variants(req[c].arguments) :
                        (KeyOf(other) = hist[c].got.key)
                          <=> AgreeOnKeyFields(other, req[c].arguments)
                  /\ \A f \in SearchFields \ KeyFields : \A v \in FieldValues(f) :
                        KeyOf(Given(req[c].arguments, f, v)) = hist[c].got.key

\* a tavily_search call computed its key from arguments that give
\* max_results and both domain lists and leave include_answer to its default
C25_Witness ==
    \E c \in Calls :
        /\ pc[c] = "done" /\ hist[c].handler = "handle_search"
        /\ hist[c].got.called /\ hist[c].sets = 1
        /\ Field(req[c].arguments, "max_results") = Num(3)
        /\ Field(req[c].arguments, "include_domains") # Undefined
        /\ Field(req[c].arguments, "exclude_domains") # Undefined
        /\ Field(req[c].arguments, "search_depth") = Str("advanced")
        /\ Field(req[c].arguments, "include_answer") = Undefined
        /\ cache[hist[c].got.key].data.defined

\* C26: within one tavily_search call the cache is read before the provider
\* is asked, the provider is asked only when that read gave nothing, the
\* cache is written only once the provider has answered with success, in the
\* step that makes the result, and no call that read nothing returns a
\* success without having written the cache.
C26_ReadThenFetchThenWrite ==
    [][\A c \in Calls :
          /\ hist'[c].fetches > hist[c].fetches =>
                /\ pc[c] = "idle" /\ pc'[c] = "fetch"
                /\ hist'[c].fetches = 1 /\ hist'[c].sets = 0
                /\ hist'[c].handler = "handle_search" =>
                      /\ hist'[c].got.called /\ ~hist'[c].got.hit
                      /\ local'[c].cache_key = hist'[c].got.key
                      /\ CacheGet(cache, hist'[c].got.key, now).data = NoData
          /\ (hist'[c].handler = "handle_search" /\ hist'[c].got.hit) =>
                (hist'[c].fetches = 0 /\ hist'[c].sets = 0)
          /\ hist'[c].sets > hist[c].sets =>
                /\ hist[c].handler = "handle_search"
                /\ pc[c] = "json" /\ hist[c].fetches = 1 /\ hist[c].sets = 0
                /\ hist'[c].sets = 1 /\ hist'[c].data.defined
                /\ pc'[c] = "done" /\ result'[c].isError = Undefined
                /\ local[c].cache_key \in DOMAIN cache'
          /\ (pc[c] # "done" /\ pc'[c] = "done"
              /\ hist'[c].handler = "handle_search"
              /\ result'[c].kind = "result" /\ result'[c].isError = Undefined
              /\ ~hist'[c].got.hit) =>
                /\ hist'[c].sets = 1 /\ hist'[c].fetches = 1
                /\ pc[c] = "json"
                /\ hist'[c].got.key \in DOMAIN cache'
                /\ cache'[hist'[c].got.key].timestamp = now
          /\ (pc'[c] = "done" /\ result'[c].isError = Bool(TRUE)) =>
                (hist'[c].sets = 0 /\ (pc[c] # "done" => cache' = cache))
      ]_vars

\* a tavily_search call that read nothing asked the provider, wrote the cache
\* and has its result, while another tavily_search call still waits for the
\* provider's body
C26_Witness ==
    \E c, d \in Calls :
        /\ Succeeded(c) /\ hist[c].handler = "handle_search"
        /\ hist[c].got.called /\ ~hist[c].got.hit
        /\ hist[c].fetches = 1 /\ hist[c].sets = 1
        /\ hist[c].got.key \in DOMAIN cache
        /\ pc[d] = "json" /\ hist[d].handler = "handle_search"

\* C27: when two tavily_search calls for the same key both read nothing and
\* both succeed, the entry after both have written is the response of the
\* call that wrote last, stamped with the time of that write: the earlier
\* writer's entry is replaced whole, and the key is never left without an
\* entry.
C27_LastWriterWins ==
    \A c \in Calls :
        (pc[c] = "done" /\ hist[c].sets = 1) =>
            /\ hist[c].got.key \in DOMAIN cache
            /\ cache[hist[c].got.key].timestamp = now
            /\ cache[hist[c].got.key].ttl = SearchTtl
            /\ \E start_time \in {now - cache[hist[c].got.key].data.response_time} :
                  cache[hist[c].got.key].data
                    = SearchResponse(hist[c].data, start_time, now)
            /\ result[c] = TextResult(StringifyResponse(cache[hist[c].got.key].data))

\* a call that read nothing wrote over the entry that another call for the
\* same key had written while it waited
C27_Witness ==
    \E c \in Calls :
        /\ pc[c] = "done" /\ hist[c].sets = 1
        /\ hist[c].got.called /\ ~hist[c].got.had
        /\ hist[c].replaced
        /\ cache[hist[c].got.key].timestamp = now
        /\ now > 0

\* call c writes the cache under `key` in this step
Writes(c, key) ==
    /\ hist'[c].sets > hist[c].sets
    /\ local[c].cache_key = key

\* call c reads the cache in this step
Reads(c) == ~hist[c].got.called /\ hist'[c].got.called

\* C28: the ttl and the timestamp of an entry change only in a write under
\* the entry's own key: a read, whether it returns the entry or not and
\* whatever cache_ttl the reading call gave, leaves every entry it does not
\* delete as it was, and so does a write under another key.
C28_OnlyWritesChangeExpiry ==
    [][/\ \A key \in DOMAIN cache \cap DOMAIN cache' :
             cache'[key] # cache[key] => \E c \in Calls : Writes(c, key)
       /\ \A c \in Calls :
             Reads(c) =>
                \A key \in DOMAIN cache' :
                    key \in DOMAIN cache /\ cache'[key] = cache[key]
      ]_vars

\* a call that gave cache_ttl 1800 was answered from an entry older than
\* 1800 seconds, and the entry has the ttl and the timestamp it had
C28_Witness ==
    \E c \in Calls :
        /\ pc[c] = "done" /\ hist[c].got.hit
        /\ Field(req[c].arguments, "cache_ttl") = Num(1800)
        /\ hist[c].got.age > 1800 * MsPerSecond
        /\ cache[hist[c].got.key].ttl = hist[c].got.ttl
        /\ cache[hist[c].got.key].timestamp = now - hist[c].got.age
        /\ Cardinality(DOMAIN cache) = 2

\* C29: an entry leaves the cache only in a get for its own key that finds
\* it expired: a get never removes or changes the entry of another key, the
\* passing of time removes nothing, and an expired entry that is not read
\* again stays in the map.
C29_OnlyExpiredReadRemoves ==
    [][/\ \A key \in DOMAIN cache \ DOMAIN cache' :
             \E c \in Calls :
                /\ Reads(c) /\ hist'[c].got.key = key
                /\ Expired(cache[key], now)
                /\ hist'[c].got.had /\ ~hist'[c].got.hit /\ ~hist'[c].got.kept
       /\ \A c \in Calls :
             Reads(c) =>
                \A key \in DOMAIN cache \ {hist'[c].got.key} :
                    key \in DOMAIN cache' /\ cache'[key] = cache[key]
       /\ now' # now => cache' = cache
      ]_vars

\* a get for one key has just run while the entry of another key, expired
\* for a while, is still in the map
C29_Witness ==
    \E c \in Calls : \E key \in DOMAIN cache :
        /\ pc[c] = "fetch"
        /\ hist[c].got.called /\ hist[c].got.key # key
        /\ Expired(cache[key], now)
        /\ now - cache[key].timestamp > cache[key].ttl * MsPerSecond + 1

\* C30: every call that has started comes to its return, with a result or
\* with an error, when the provider settles the request the call awaits:
\* a call that waits for the provider is finished later on, whatever the
\* other calls do in between.
C30_StartedCallsFinish ==
    \A c \in Calls : (pc[c] \in {"fetch", "json"}) ~> (pc[c] = "done")

\* a call that waited for the provider has finished with an error result
\* while the other call still waits
C30_Witness ==
    \E c, d \in Calls :
        /\ pc[c] = "done" /\ hist[c].fetches = 1
        /\ result[c].kind = "result" /\ result[c].isError = Bool(TRUE)
        /\ pc[d] = "fetch"

\* the read of call c found an entry that had expired
FoundExpired(c) ==
    /\ hist[c].got.called /\ hist[c].got.had
    /\ hist[c].got.age > hist[c].got.ttl * MsPerSecond

\* C31: the tavily_search call that finds the entry of its key expired asks
\* the provider, and when it succeeds the key has a new entry stamped with
\* the time of that write, from which the same request, made at once, is
\* answered without the provider being asked.
C31_ExpiredEntryIsRefetched ==
    \A c \in Calls :
        FoundExpired(c) =>
            /\ ~hist[c].got.hit /\ hist[c].fetches = 1
            /\ pc[c] \in {"fetch", "json", "done"}
            /\ Succeeded(c) =>
                  /\ hist[c].sets = 1
                  /\ hist[c].got.key \in DOMAIN cache
                  /\ cache[hist[c].got.key].timestamp = now
                  /\ ~Expired(cache[hist[c].got.key], now)
                  /\ \E again \in {Handle(req[c], cache, now)} :
                        /\ again.pc = "done"
                        /\ again.hist.got.hit /\ again.hist.fetches = 0
                        /\ again.hist.got.key = hist[c].got.key
                        /\ again.hist.got.age = 0
                        /\ again.result.isError = Undefined
                        /\ again.cache = cache

\* a call found the entry of its key expired, asked the provider and wrote
\* the new entry
C31_Witness ==
    \E c \in Calls :
        /\ FoundExpired(c) /\ Succeeded(c)
        /\ hist[c].fetches = 1 /\ hist[c].sets = 1
        /\ hist[c].replaced = FALSE
        /\ cache[hist[c].got.key].timestamp = now

\* the provider fails tavily_search call c in this step: a status that is no
\* success, a network failure or a body that is no JSON
Fails(c) ==
    /\ pc[c] \in {"fetch", "json"} /\ pc'[c] = "done"
    /\ hist[c].handler = "handle_search"
    /\ result'[c].isError = Bool(TRUE)

\* the step in which the provider fails a tavily_search call creates,
\* overwrites and deletes nothing, and an entry of the call's key that has
\* not expired answers the same request afterwards
FailureKeepsCache(c) ==
    Fails(c) =>
        /\ cache' = cache
        /\ hist'[c].sets = 0
        /\ CachedFresh(local[c].cache_key) =>
              \E again \in {Handle(req[c], cache', now')} :
                  /\ again.hist.got.hit
                  /\ again.result
                       = TextResult(StringifyResponse(cache[local[c].cache_key].data))

\* C32: a tavily_search call whose provider request fails leaves the cache
\* exactly as it was before the call: the call has created, overwritten and
\* deleted no entry, its own read included, and an unexpired entry that
\* another call wrote under its key is served afterwards.
C32_FailedCallLeavesCache ==
    [][\A c \in Calls :
          /\ FailureKeepsCache(c)
          /\ Fails(c) => (hist[c].got.had => hist[c].got.kept)
      ]_vars

\* C32, amended: a tavily_search call whose provider request fails leaves
\* the cache as its own read left it (the read deletes the entry of its key
\* when that has expired): the failure creates, overwrites and deletes
\* nothing, and an unexpired entry that another call wrote under its key is
\* served afterwards.
C32_FailureLeavesCacheAsRead ==
    [][\A c \in Calls : FailureKeepsCache(c)]_vars

\* a tavily_search call that read nothing has failed, and the entry another
\* call wrote under its key while it waited is there, unexpired
C32_Witness ==
    \E c \in Calls :
        /\ pc[c] = "done" /\ hist[c].handler = "handle_search"
        /\ hist[c].fetches = 1 /\ hist[c].sets = 0
        /\ result[c].isError = Bool(TRUE)
        /\ ~hist[c].got.had
        /\ CachedFresh(hist[c].got.key)

\* the tavily_search requests that pass validation
SearchRequests ==
    {r \in Requests : r.name = "tavily_search" /\ ~QueryInvalid(r.arguments)}

\* each of them with the key handle_search computes for it
KeyedRequests == {<<r, KeyOf(r.arguments)>> : r \in SearchRequests}

SearchKeys == {p[2] : p \in KeyedRequests}

\* C33: in every reachable state, whatever the interleaving, each entry of
\* the cache is a provider's body with the response_time of the call that
\* stored it, stamped no later than now with the ttl of handle_search, under
\* the key of a tavily_search request; a call that waits for the provider
\* keeps the key of its own request, and the call that writes stores its
\* own response under the key of its own request.
C33_EntriesComeFromTheirCalls ==
    /\ \A key \in DOMAIN cache :
          /\ key \in SearchKeys
          /\ cache[key].data.defined
          /\ cache[key].data.response_time >= 0
          /\ [cache[key].data EXCEPT !.response_time = -1] \in Bodies
          /\ cache[key].ttl = SearchTtl
          /\ cache[key].timestamp <= now
    /\ \A c \in Calls :
          /\ (pc[c] \in {"fetch", "json"} /\ hist[c].handler = "handle_search") =>
                <<req[c], local[c].cache_key>> \in KeyedRequests
          /\ (pc[c] \in {"fetch", "json"} /\ hist[c].handler # "handle_search") =>
                local[c] = NoLocal
          /\ hist[c].sets = 1 =>
                /\ pc[c] = "done" /\ Succeeded(c)
                /\ <<req[c], hist[c].got.key>> \in KeyedRequests
                /\ [cache[hist[c].got.key].data EXCEPT !.response_time = -1]
                     = hist[c].data
                /\ cache[hist[c].got.key].timestamp = now

\* a call has just written its entry while a call for another key waits for
\* the provider, and the cache holds nothing under that other key
C33_Witness ==
    \E c, d \in Calls :
        /\ pc[c] = "done" /\ hist[c].sets = 1
        /\ pc[d] \in {"fetch", "json"} /\ hist[d].handler = "handle_search"
        /\ local[d].cache_key # hist[c].got.key
        /\ DOMAIN cache = {hist[c].got.key}

\* the five arguments of the key that have a default, with the default
KeyDefault(f) ==
    CASE f = "search_depth" -> Str("basic")
      [] f = "topic" -> Str("general")
      [] OTHER -> Bool(FALSE)

DefaultedKeyFields == KeyFields \ {"query"}

\* the argument bag with every omitted field of `fields` given its default
Spelled(rawArgs, fields) ==
    Bag([f \in DOMAIN rawArgs.f \cup fields |->
            IF f \in fields /\ Field(rawArgs, f) = Undefined THEN KeyDefault(f)
            ELSE rawArgs.f[f]])

\* the argument bag without the fields of `fields` that are given as their
\* default
Unspelled(rawArgs, fields) ==
    Bag([f \in {g \in DOMAIN rawArgs.f :
                    ~(g \in fields /\ rawArgs.f[g] = KeyDefault(g))} |->
            rawArgs.f[f]])

\* the two ways round: defaults spelled out, and defaults left out
DefaultTwins(rawArgs) ==
    {Spelled(rawArgs, fields) : fields \in SUBSET DefaultedKeyFields}
    \cup {Unspelled(rawArgs, fields) : fields \in SUBSET DefaultedKeyFields}

C35_HitTextIsWritersText ==
    \A c \in Calls :
        /\ (pc[c] = "done" /\ hist[c].sets = 1) =>
              \A later \in {0} \cup ClockSteps :
                  \E hit \in {Handle(req[c], cache, now + later)} :
                      /\ hit.hist.got.hit
                      /\ hit.result = result[c]
                      /\ hit.cache = cache
        /\ (pc[c] = "done" /\ hist[c].got.hit) =>
              /\ hist[c].got.kept
              /\ result[c]
                   = TextResult(StringifyResponse(cache[hist[c].got.key].data))
              /\ cache[hist[c].got.key].timestamp = now - hist[c].got.age

\* a call is answered, half an hour after the entry was written, from an
\* entry whose writer waited half an hour for the provider, and its text
\* has that response_time
C35_Witness ==
    \E c \in Calls :
        /\ pc[c] = "done" /\ hist[c].got.hit
        /\ hist[c].got.age = 1800001
        /\ cache[hist[c].got.key].data.response_time = 1800001
        /\ Contains(result[c].content[1].text, "\"response_time\": 1800.001")


====
